---- MODULE Spec2Model ----
(***************************************************************************)
(* A model of parameters.py: the selection of force field parameters by    *)
(* type and by selection file, the aggregation of bond and angle values    *)
(* from MacroModel files, the usage check and the averaging step of main.  *)
(*                                                                         *)
(* Parameter records are objects: records is the store of the records that *)
(* exist, and every list of parameters is a sequence of indices into it,   *)
(* so that an entry chosen twice is one and the same record.               *)
(* Values are exact rationals <<numerator, denominator>> in lowest terms,  *)
(* in thousandths of the unit (1.300 is <<1300, 1>>).                      *)
(***************************************************************************)
EXTENDS Integers, Sequences, FiniteSets

VARIABLES
    pc,             \* where the program is
    opts,           \* the parsed options, the input files by their contents
    records,        \* the parameter records that exist
    ff_params,      \* ff.params
    params,         \* main's list of chosen parameters
    chosen_params,  \* the list the last trim_params_by_* call returned
    bond_dic,       \* gather_values' bond dictionary
    angle_dic,      \* gather_values' angle dictionary
    stdout,         \* what was printed
    exported        \* the force fields written by export_ff

vars == <<pc, opts, records, ff_params, params, chosen_params,
          bond_dic, angle_dic, stdout, exported>>

(***************************************************************************)
(* Bounds of the checked inputs.                                           *)
(***************************************************************************)
MaxLines == 3

MaxPtypes == 2

MaxMmos == 3

(***************************************************************************)
(* Sequences.                                                              *)
(***************************************************************************)
SeqsUpTo(S, n) == UNION {[1..k -> S] : k \in 0..n}

Range(s) == {s[i] : i \in DOMAIN s}

RECURSIVE Sum(_)
Sum(s) == IF s = <<>> THEN 0 ELSE Head(s) + Sum(Tail(s))

RECURSIVE Gcd(_, _)
Gcd(a, b) == IF b = 0 THEN a ELSE Gcd(b, a % b)

Abs(a) == IF a < 0 THEN -a ELSE a

\* The rational n/d (d > 0) in lowest terms.
Rat(n, d) == LET g == Gcd(Abs(n), d) IN <<n \div g, d \div g>>

(***************************************************************************)
(* Text: a line is a sequence of characters.                               *)
(***************************************************************************)
Digits == {"0", "1", "2", "3", "4", "5", "6", "7", "8", "9"}

Whitespace == {" ", "\t", "\n"}

DigitValue(c) ==
    CASE c = "0" -> 0 [] c = "1" -> 1 [] c = "2" -> 2 [] c = "3" -> 3
      [] c = "4" -> 4 [] c = "5" -> 5 [] c = "6" -> 6 [] c = "7" -> 7
      [] c = "8" -> 8 [] c = "9" -> 9

\* line.partition('#')[0]: the text before the first '#', all of it if none.
RECURSIVE PartitionHead(_)
PartitionHead(line) ==
    IF line = <<>> \/ Head(line) = "#" THEN <<>>
    ELSE <<Head(line)>> \o PartitionHead(Tail(line))

\* line.split(): the maximal runs of non-whitespace characters, in order.
RECURSIVE SplitFrom(_, _)
SplitFrom(line, cur) ==
    IF line = <<>> THEN (IF cur = <<>> THEN <<>> ELSE <<cur>>)
    ELSE IF Head(line) \in Whitespace
         THEN (IF cur = <<>> THEN <<>> ELSE <<cur>>) \o SplitFrom(Tail(line), <<>>)
         ELSE SplitFrom(Tail(line), Append(cur, Head(line)))

Split(line) == SplitFrom(line, <<>>)

\* Whether int(tok) succeeds: an optional sign and at least one digit.
UnsignedPart(tok) ==
    IF tok # <<>> /\ Head(tok) \in {"+", "-"} THEN Tail(tok) ELSE tok

IsInt(tok) ==
    /\ UnsignedPart(tok) # <<>>
    /\ \A i \in DOMAIN UnsignedPart(tok) : UnsignedPart(tok)[i] \in Digits

RECURSIVE DigitsValue(_, _)
DigitsValue(ds, acc) ==
    IF ds = <<>> THEN acc
    ELSE DigitsValue(Tail(ds), 10 * acc + DigitValue(Head(ds)))

\* int(tok) for a token int accepts.
ParseInt(tok) ==
    IF Head(tok) = "-" THEN -DigitsValue(UnsignedPart(tok), 0)
    ELSE DigitsValue(UnsignedPart(tok), 0)

\* 'neg' in arg
ContainsNeg(arg) ==
    \E i \in 1..(Len(arg) - 2) :
        arg[i] = "n" /\ arg[i + 1] = "e" /\ arg[i + 2] = "g"

(***************************************************************************)
(* The parameter types.                                                    *)
(***************************************************************************)
ALL_PARM_TYPES ==
    <<"ae", "af", "be", "bf", "df", "imp1", "imp2", "sb", "q", "vdwe", "vdwr">>

(***************************************************************************)
(* trim_params_by_type(params, ptypes).  recs is the store of records and  *)
(* plist the list passed as params, a sequence of indices into recs; the   *)
(* result is the list of the entries whose ptype is in ptypes, in order.   *)
(***************************************************************************)
RECURSIVE TypeFilter(_, _, _)
TypeFilter(recs, plist, ptypes) ==
    IF plist = <<>> THEN <<>>
    ELSE (IF recs[Head(plist)].ptype \in Range(ptypes)
          THEN <<Head(plist)>> ELSE <<>>)
         \o TypeFilter(recs, Tail(plist), ptypes)

\* Faulty variant: the matches collected in reverse order.
RECURSIVE TypeFilterReversed(_, _, _)
TypeFilterReversed(recs, plist, ptypes) ==
    IF plist = <<>> THEN <<>>
    ELSE TypeFilterReversed(recs, Tail(plist), ptypes)
         \o (IF recs[Head(plist)].ptype \in Range(ptypes)
             THEN <<Head(plist)>> ELSE <<>>)

trim_params_by_type(recs, plist, ptypes) == TypeFilter(recs, plist, ptypes)

(***************************************************************************)
(* trim_params_by_file: the parse of the selection file.                   *)
(***************************************************************************)
\* Faulty variant: only the third column is looked at.
NegFlagThirdOnly(cols) ==
    IF Len(cols) >= 3 /\ ContainsNeg(cols[3]) THEN "True" ELSE "None"

\* The allow_negative of one line's columns: True if an argument after the
\* first two contains 'neg', None otherwise.
NegFlag(cols) ==
    IF \E k \in 3..Len(cols) : ContainsNeg(cols[k]) THEN "True" ELSE "None"

\* The outcome of one line: nothing for a line without columns, the error
\* int(cols[0]), int(cols[1]) raises, or the directive.
ParseLine(line) ==
    LET cols == Split(PartitionHead(line)) IN
    IF cols = <<>> THEN [kind |-> "skip"]
    ELSE IF ~IsInt(cols[1]) THEN [kind |-> "ValueError"]
    ELSE IF Len(cols) < 2 THEN [kind |-> "IndexError"]
    ELSE IF ~IsInt(cols[2]) THEN [kind |-> "ValueError"]
    ELSE [kind |-> "directive",
          temp_param |-> <<ParseInt(cols[1]), ParseInt(cols[2]), NegFlag(cols)>>]

\* The loop over the lines: the error of the first line that raises, or
\* temp_params, the directives in file order.
RECURSIVE ReadLines(_, _)
ReadLines(lines, temp_params) ==
    IF lines = <<>> THEN [raised |-> "None", temp_params |-> temp_params]
    ELSE LET r == ParseLine(Head(lines)) IN
         CASE r.kind = "skip" -> ReadLines(Tail(lines), temp_params)
           [] r.kind = "directive" ->
                ReadLines(Tail(lines), Append(temp_params, r.temp_param))
           [] OTHER -> [raised |-> r.kind, temp_params |-> temp_params]

(***************************************************************************)
(* trim_params_by_file: the loop over params and, for each, over           *)
(* temp_params.  A match sets the record's _allow_negative and appends the *)
(* record to chosen_params.                                                *)
(***************************************************************************)
\* Faulty variant: the inner loop stops at a parameter's first match.
RECURSIVE MatchLoopFirstOnly(_, _, _, _, _)
MatchLoopFirstOnly(recs, plist, temp_params, j, chosen) ==
    IF plist = <<>> THEN [records |-> recs, chosen |-> chosen]
    ELSE IF j > Len(temp_params)
         THEN MatchLoopFirstOnly(recs, Tail(plist), temp_params, 1, chosen)
    ELSE LET i == Head(plist) IN
         IF /\ recs[i].mm3_row = temp_params[j][1]
            /\ recs[i].mm3_col = temp_params[j][2]
         THEN MatchLoopFirstOnly(
                  [recs EXCEPT ![i].allow_negative = temp_params[j][3]],
                  Tail(plist), temp_params, 1, Append(chosen, i))
         ELSE MatchLoopFirstOnly(recs, plist, temp_params, j + 1, chosen)

\* Faulty variant: a match sets _allow_negative only when the directive
\* says neg, and never unsets it.
RECURSIVE MatchLoopSticky(_, _, _, _, _)
MatchLoopSticky(recs, plist, temp_params, j, chosen) ==
    IF plist = <<>> THEN [records |-> recs, chosen |-> chosen]
    ELSE IF j > Len(temp_params)
         THEN MatchLoopSticky(recs, Tail(plist), temp_params, 1, chosen)
    ELSE LET i == Head(plist) IN
         IF /\ recs[i].mm3_row = temp_params[j][1]
            /\ recs[i].mm3_col = temp_params[j][2]
         THEN MatchLoopSticky(
                  IF temp_params[j][3] = "True"
                  THEN [recs EXCEPT ![i].allow_negative = "True"] ELSE recs,
                  plist, temp_params, j + 1, Append(chosen, i))
         ELSE MatchLoopSticky(recs, plist, temp_params, j + 1, chosen)

RECURSIVE MatchLoop(_, _, _, _, _)
MatchLoop(recs, plist, temp_params, j, chosen) ==
    IF plist = <<>> THEN [records |-> recs, chosen |-> chosen]
    ELSE IF j > Len(temp_params)
         THEN MatchLoop(recs, Tail(plist), temp_params, 1, chosen)
    ELSE LET i == Head(plist) IN
         IF /\ recs[i].mm3_row = temp_params[j][1]
            /\ recs[i].mm3_col = temp_params[j][2]
         THEN MatchLoop([recs EXCEPT ![i].allow_negative = temp_params[j][3]],
                        plist, temp_params, j + 1, Append(chosen, i))
         ELSE MatchLoop(recs, plist, temp_params, j + 1, chosen)

\* Faulty variant: the directives read before a line that raises are applied.
trim_params_by_file_eager(recs, plist, lines) ==
    LET r == ReadLines(lines, <<>>)
        m == MatchLoop(recs, plist, r.temp_params, 1, <<>>)
    IN  [raised |-> r.raised, records |-> m.records,
         chosen |-> IF r.raised # "None" THEN <<>> ELSE m.chosen]

\* trim_params_by_file(params, filename), the file given by its lines:
\* the error raised, the store afterwards, and the list returned.
trim_params_by_file(recs, plist, lines) ==
    LET r == ReadLines(lines, <<>>) IN
    IF r.raised # "None"
    THEN [raised |-> r.raised, records |-> recs, chosen |-> <<>>]
    ELSE LET m == MatchLoop(recs, plist, r.temp_params, 1, <<>>) IN
         [raised |-> "None", records |-> m.records, chosen |-> m.chosen]

(***************************************************************************)
(* gather_values(mmos).  A dictionary is a function from its keys to       *)
(* lists of values.                                                        *)
(***************************************************************************)
EmptyDic == <<>>

\* Faulty variant: a value the list already holds is not appended again.
AddValueOnce(dic, ff_row, value) ==
    IF ff_row \in DOMAIN dic
    THEN (IF \E k \in DOMAIN dic[ff_row] : dic[ff_row][k] = value
          THEN dic ELSE [dic EXCEPT ![ff_row] = Append(@, value)])
    ELSE [r \in DOMAIN dic \cup {ff_row} |->
             IF r = ff_row THEN <<value>> ELSE dic[r]]

\* dic[ff_row].append(value), or dic[ff_row] = [value] for a new key.
AddValue(dic, ff_row, value) ==
    IF ff_row \in DOMAIN dic
    THEN [dic EXCEPT ![ff_row] = Append(@, value)]
    ELSE [r \in DOMAIN dic \cup {ff_row} |->
             IF r = ff_row THEN <<value>> ELSE dic[r]]

RECURSIVE AddObservations(_, _)
AddObservations(dic, obs) ==
    IF obs = <<>> THEN dic
    ELSE AddObservations(AddValue(dic, Head(obs).ff_row, Head(obs).value),
                         Tail(obs))

RECURSIVE GatherStructures(_, _)
GatherStructures(dics, structures) ==
    IF structures = <<>> THEN dics
    ELSE GatherStructures(
             [bond_dic  |-> AddObservations(dics.bond_dic, Head(structures).bonds),
              angle_dic |-> AddObservations(dics.angle_dic, Head(structures).angles)],
             Tail(structures))

RECURSIVE GatherMmos(_, _)
GatherMmos(dics, mmos) ==
    IF mmos = <<>> THEN dics
    ELSE GatherMmos(GatherStructures(dics, Head(mmos)), Tail(mmos))

gather_values(mmos) ==
    GatherMmos([bond_dic |-> EmptyDic, angle_dic |-> EmptyDic], mmos)

(***************************************************************************)
(* The usage check and the averaging step of main.                         *)
(***************************************************************************)
\* np.mean(values)
Mean(values) == Rat(Sum(values), Len(values))

Averages(dic) == [ff_row \in DOMAIN dic |-> Mean(dic[ff_row])]

\* Faulty variant: the rows of the bond dictionary only.
BondRowsOnly(bdic, adic) == DOMAIN bdic

\* all_rows = bond_dic.keys() + angle_dic.keys(), read for membership.
AllRows(bdic, adic) == DOMAIN bdic \cup DOMAIN adic

\* The notices of the loop over params, in order.
RECURSIVE UsageNotices(_, _, _)
UsageNotices(recs, plist, all_rows) ==
    IF plist = <<>> THEN <<>>
    ELSE (IF recs[Head(plist)].mm3_row \notin all_rows
          THEN <<<<"not in use", Head(plist)>>>> ELSE <<>>)
         \o UsageNotices(recs, Tail(plist), all_rows)

\* Faulty variant: a bond length takes the bond average only and an angle
\* the angle average only.
UpdateValueByKind(param, bond_avg, angle_avg) ==
    IF param.ptype = "be" /\ param.mm3_row \in DOMAIN bond_avg
    THEN [param EXCEPT !.value = bond_avg[param.mm3_row]]
    ELSE IF param.ptype = "ae" /\ param.mm3_row \in DOMAIN angle_avg
    THEN [param EXCEPT !.value = angle_avg[param.mm3_row]]
    ELSE param

\* Faulty variant: the angle average first, the bond average second.
UpdateValueAngleFirst(param, bond_avg, angle_avg) ==
    LET after_angle ==
            IF param.ptype \in {"be", "ae"} /\ param.mm3_row \in DOMAIN angle_avg
            THEN [param EXCEPT !.value = angle_avg[param.mm3_row]]
            ELSE param
    IN  IF after_angle.ptype \in {"be", "ae"}
           /\ after_angle.mm3_row \in DOMAIN bond_avg
        THEN [after_angle EXCEPT !.value = bond_avg[after_angle.mm3_row]]
        ELSE after_angle

\* The two updates of one parameter, the bond average first.
UpdateValue(param, bond_avg, angle_avg) ==
    LET after_bond ==
            IF param.ptype \in {"be", "ae"} /\ param.mm3_row \in DOMAIN bond_avg
            THEN [param EXCEPT !.value = bond_avg[param.mm3_row]]
            ELSE param
    IN  IF after_bond.ptype \in {"be", "ae"}
           /\ after_bond.mm3_row \in DOMAIN angle_avg
        THEN [after_bond EXCEPT !.value = angle_avg[after_bond.mm3_row]]
        ELSE after_bond

RECURSIVE UpdateValues(_, _, _, _)
UpdateValues(recs, plist, bond_avg, angle_avg) ==
    IF plist = <<>> THEN recs
    ELSE UpdateValues(
             [recs EXCEPT ![Head(plist)] = UpdateValue(@, bond_avg, angle_avg)],
             Tail(plist), bond_avg, angle_avg)

\* The lines printed for --printparams.
PrintedAddresses(recs, plist) ==
    [k \in DOMAIN plist |->
        <<"address", recs[plist[k]].mm3_row, recs[plist[k]].mm3_col>>]

(***************************************************************************)
(* The inputs.                                                             *)
(***************************************************************************)
Param(row, col, ptype, value) ==
    [mm3_row |-> row, mm3_col |-> col, ptype |-> ptype,
     value |-> <<value, 1>>, allow_negative |-> "None"]

\* The parameters of a force field, in the order of its rows.
BaseFF ==
    << Param(100, 1, "be", 1520), Param(100, 2, "bf", 4500),
       Param(200, 1, "ae", 1095), Param(300, 1, "ae", 1200),
       Param(1858, 1, "be", 1300) >>

RECURSIVE Pick(_, _, _)
Pick(s, S, i) ==
    IF i > Len(s) THEN <<>>
    ELSE (IF i \in S THEN <<s[i]>> ELSE <<>>) \o Pick(s, S, i + 1)

\* The lists of parameter records given to trim_params_by_type: the
\* sublists of BaseFF, each with every allow_negative unset or, as an
\* earlier selection may leave it, set.
RecordLists ==
    {[k \in DOMAIN Pick(BaseFF, S, 1) |->
         [Pick(BaseFF, S, 1)[k] EXCEPT !.allow_negative = flag]] :
     S \in SUBSET (DOMAIN BaseFF), flag \in {"None", "True"}}

\* The lists given to trim_params_by_file: those of the records at the rows
\* the lines of LinePool name, and of one at a row they do not.
FileRecordLists == {ps \in RecordLists : \A k \in DOMAIN ps : ps[k].mm3_row # 1858}

PtypePool == {"ae", "be", "bf", "zz"}

PtypeLists == SeqsUpTo(PtypePool, MaxPtypes)

Line_100_1 == <<"1", "0", "0", " ", "1">>

Line_100_2_neg == <<"1", "0", "0", " ", "2", " ", "n", "e", "g">>

Line_200_1_comment ==
    <<"2", "0", "0", " ", "1", " ", "#", " ", "c", "o", "m", "m", "e", "n", "t">>

Line_100_2_hash_neg == <<"1", "0", "0", " ", "2", " ", "#", "n", "e", "g">>

Line_200_1_a_xneg ==
    <<"2", "0", "0", " ", "1", " ", "a", " ", "x", "n", "e", "g">>

Line_blank == <<" ">>

Line_100 == <<"1", "0", "0">>

Line_1x_1 == <<"1", "x", " ", "1">>

Line_1858_1 == <<"1", "8", "5", "8", " ", "1">>

LinePool ==
    {Line_100_1, Line_100_2_neg, Line_200_1_comment, Line_100_2_hash_neg,
     Line_200_1_a_xneg, Line_blank, Line_100, Line_1x_1}

SelectionFiles == SeqsUpTo(LinePool, MaxLines)

Obs(row, value) == [ff_row |-> row, value |-> value]

Structure_A ==
    [bonds |-> <<Obs(1858, 1360), Obs(1858, 1354)>>, angles |-> <<>>]

Structure_B ==
    [bonds |-> <<Obs(100, 1500), Obs(200, 1400)>>, angles |-> <<Obs(100, 1100)>>]

Structure_C ==
    [bonds |-> <<Obs(100, 1501)>>,
     angles |-> <<Obs(1858, 1200), Obs(200, 1095), Obs(200, 1090)>>]

Structure_D ==
    [bonds |-> <<>>, angles |-> <<Obs(100, 1101), Obs(100, 1100)>>]

Structure_E ==
    [bonds |-> <<Obs(100, 1500), Obs(300, 1190)>>,
     angles |-> <<Obs(1858, 1200), Obs(1858, 1210)>>]

\* The MacroModel files, each the list of its structures.
MmoPool ==
    { <<Structure_A>>, <<Structure_B, Structure_C>>, <<Structure_D>>, <<>> }

MmoLists == SeqsUpTo(MmoPool, MaxMmos)

NoOpts ==
    [ffpath |-> <<>>, all |-> FALSE, ptypes |-> <<>>,
     pfile_given |-> FALSE, pfile |-> <<>>,
     mmo_given |-> FALSE, mmo |-> <<>>,
     average |-> FALSE, check |-> FALSE, printparams |-> FALSE]

\* The command lines main is run on.
MainFFs == {BaseFF, Pick(BaseFF, {2, 3, 5}, 1)}

MainPtypes == {<<>>, <<"be">>, <<"ae", "be">>, <<"bf", "zz">>}

MainFiles ==
    { <<Line_100_1, Line_100_2_neg, Line_200_1_comment>>,
      <<Line_100_2_neg, Line_1858_1, Line_100_2_hash_neg>>,
      <<Line_blank>>,
      <<Line_100_1, Line_100_2_neg, Line_100>>,
      <<Line_100_2_neg, Line_1x_1, Line_200_1_comment>>,
      <<Line_100, Line_100_1>> }

MainMmos ==
    { <<<<Structure_A>>>>, <<<<Structure_B, Structure_C>>>>, <<<<Structure_D>>>>,
      << <<>> >>,
      << <<Structure_A>>, <<Structure_B, Structure_C>> >>,
      << <<Structure_D>>, <<Structure_A>> >>,
      << <<Structure_E>> >> }

MainOpts ==
    {[ffpath |-> ff, all |-> all, ptypes |-> pt,
      pfile_given |-> pf.given, pfile |-> pf.lines,
      mmo_given |-> mm.given, mmo |-> mm.files,
      average |-> av, check |-> ch, printparams |-> pp] :
     ff \in MainFFs, all \in BOOLEAN, pt \in MainPtypes,
     pf \in {[given |-> FALSE, lines |-> <<>>]}
            \cup {[given |-> TRUE, lines |-> f] : f \in MainFiles},
     mm \in {[given |-> FALSE, files |-> <<>>]}
            \cup {[given |-> TRUE, files |-> m] : m \in MainMmos},
     av \in BOOLEAN, ch \in BOOLEAN, pp \in BOOLEAN}

(***************************************************************************)
(* main.                                                                   *)
(***************************************************************************)
Init ==
    /\ pc = "start"
    /\ opts \in MainOpts
    /\ records = <<>>
    /\ ff_params = <<>>
    /\ params = <<>>
    /\ chosen_params = <<>>
    /\ bond_dic = EmptyDic
    /\ angle_dic = EmptyDic
    /\ stdout = <<>>
    /\ exported = <<>>

\* Faulty variant: the files are required for averaging only.
CheckRequiredInputAverageOnly ==
    /\ pc = "start"
    /\ pc' = IF opts.average /\ ~opts.mmo_given
             THEN "AssertionError" ELSE "import"
    /\ UNCHANGED <<opts, records, ff_params, params, chosen_params,
                   bond_dic, angle_dic, stdout, exported>>

\* if opts.average or opts.check: assert opts.mmo
CheckRequiredInput ==
    /\ pc = "start"
    /\ pc' = IF (opts.average \/ opts.check) /\ ~opts.mmo_given
             THEN "AssertionError" ELSE "import"
    /\ UNCHANGED <<opts, records, ff_params, params, chosen_params,
                   bond_dic, angle_dic, stdout, exported>>

\* ff = datatypes.MM3(opts.ffpath); ff.import_ff()
ImportFF ==
    /\ pc = "import"
    /\ records' = opts.ffpath
    /\ ff_params' = [k \in DOMAIN opts.ffpath |-> k]
    /\ pc' = "types"
    /\ UNCHANGED <<opts, params, chosen_params,
                   bond_dic, angle_dic, stdout, exported>>

\* if opts.all: opts.ptypes.extend(ALL_PARM_TYPES)
SetParameterTypes ==
    /\ pc = "types"
    /\ opts' = IF opts.all
               THEN [opts EXCEPT !.ptypes = @ \o ALL_PARM_TYPES] ELSE opts
    /\ pc' = "by_type"
    /\ UNCHANGED <<records, ff_params, params, chosen_params,
                   bond_dic, angle_dic, stdout, exported>>

\* params = []; if opts.ptypes: params.extend(trim_params_by_type(...))
SelectByType ==
    /\ pc = "by_type"
    /\ IF opts.ptypes # <<>>
       THEN LET chosen == trim_params_by_type(records, ff_params, opts.ptypes)
            IN  /\ chosen_params' = chosen
                /\ params' = chosen
       ELSE /\ params' = <<>>
            /\ UNCHANGED chosen_params
    /\ pc' = "by_file"
    /\ UNCHANGED <<opts, records, ff_params,
                   bond_dic, angle_dic, stdout, exported>>

\* if opts.pfile: params.extend(trim_params_by_file(ff.params, opts.pfile))
\* What the call did to the records stays done when it raises; the list is
\* extended only when it returns.
SelectByFile ==
    /\ pc = "by_file"
    /\ IF ~opts.pfile_given
       THEN /\ pc' = "load"
            /\ UNCHANGED <<records, params, chosen_params>>
       ELSE LET r == trim_params_by_file(records, ff_params, opts.pfile) IN
            /\ records' = r.records
            /\ IF r.raised # "None"
               THEN /\ pc' = r.raised
                    /\ UNCHANGED <<params, chosen_params>>
               ELSE /\ pc' = "load"
                    /\ chosen_params' = r.chosen
                    /\ params' = params \o r.chosen
    /\ UNCHANGED <<opts, ff_params, bond_dic, angle_dic, stdout, exported>>

\* if opts.mmo or opts.average or opts.check: read the files, gather_values
LoadMmos ==
    /\ pc = "load"
    /\ IF opts.mmo_given \/ opts.average \/ opts.check
       THEN /\ bond_dic' = gather_values(opts.mmo).bond_dic
            /\ angle_dic' = gather_values(opts.mmo).angle_dic
            /\ pc' = "check"
       ELSE /\ pc' = "print"
            /\ UNCHANGED <<bond_dic, angle_dic>>
    /\ UNCHANGED <<opts, records, ff_params, params, chosen_params,
                   stdout, exported>>

\* if opts.check: print a notice for each parameter whose row is in no table
UsageCheck ==
    /\ pc = "check"
    /\ stdout' = IF opts.check
                 THEN stdout \o UsageNotices(records, params,
                                             AllRows(bond_dic, angle_dic))
                 ELSE stdout
    /\ pc' = "average"
    /\ UNCHANGED <<opts, records, ff_params, params, chosen_params,
                   bond_dic, angle_dic, exported>>

\* if opts.average: set the averages and export the parameters
Average ==
    /\ pc = "average"
    /\ IF opts.average
       THEN LET updated == UpdateValues(records, params,
                                        Averages(bond_dic), Averages(angle_dic))
            IN  /\ records' = updated
                /\ exported' = Append(exported,
                                      [k \in DOMAIN params |-> updated[params[k]]])
       ELSE UNCHANGED <<records, exported>>
    /\ pc' = "print"
    /\ UNCHANGED <<opts, ff_params, params, chosen_params,
                   bond_dic, angle_dic, stdout>>

\* if opts.printparams: print the row and column of each parameter
PrintParams ==
    /\ pc = "print"
    /\ stdout' = IF opts.printparams
                 THEN stdout \o PrintedAddresses(records, params) ELSE stdout
    /\ pc' = "return"
    /\ UNCHANGED <<opts, records, ff_params, params, chosen_params,
                   bond_dic, angle_dic, exported>>

\* ff.params = params; return ff
Return ==
    /\ pc = "return"
    /\ ff_params' = params
    /\ pc' = "done"
    /\ UNCHANGED <<opts, records, params, chosen_params,
                   bond_dic, angle_dic, stdout, exported>>

Next ==
    \/ CheckRequiredInput
    \/ ImportFF
    \/ SetParameterTypes
    \/ SelectByType
    \/ SelectByFile
    \/ LoadMmos
    \/ UsageCheck
    \/ Average
    \/ PrintParams
    \/ Return

Spec == Init /\ [][Next]_vars

(***************************************************************************)
(* The functions called on their own, on every input of the bounded sets.  *)
(* The arguments are held in opts: the list of parameters in ffpath, the   *)
(* ptypes in ptypes, the selection file in pfile, the files in mmo.        *)
(***************************************************************************)
InitCall(at, o) ==
    /\ pc = at
    /\ opts = o
    /\ records = o.ffpath
    /\ ff_params = [k \in DOMAIN o.ffpath |-> k]
    /\ params = <<>>
    /\ chosen_params = <<>>
    /\ bond_dic = EmptyDic
    /\ angle_dic = EmptyDic
    /\ stdout = <<>>
    /\ exported = <<>>

InitType ==
    \E ps \in RecordLists, pt \in PtypeLists :
        InitCall("call_type", [NoOpts EXCEPT !.ffpath = ps, !.ptypes = pt])

\* chosen_params = trim_params_by_type(params, ptypes)
CallTrimByType ==
    /\ pc = "call_type"
    /\ chosen_params' = trim_params_by_type(records, ff_params, opts.ptypes)
    /\ pc' = "returned"
    /\ UNCHANGED <<opts, records, ff_params, params,
                   bond_dic, angle_dic, stdout, exported>>

SpecType == InitType /\ [][CallTrimByType]_vars

InitFile ==
    \E ps \in FileRecordLists, f \in SelectionFiles :
        InitCall("call_file",
                 [NoOpts EXCEPT !.ffpath = ps, !.pfile_given = TRUE, !.pfile = f])

\* chosen_params = trim_params_by_file(params, filename)
CallTrimByFile ==
    /\ pc = "call_file"
    /\ LET r == trim_params_by_file(records, ff_params, opts.pfile) IN
       /\ pc' = IF r.raised # "None" THEN r.raised ELSE "returned"
       /\ records' = r.records
       /\ chosen_params' = r.chosen
    /\ UNCHANGED <<opts, ff_params, params,
                   bond_dic, angle_dic, stdout, exported>>

SpecFile == InitFile /\ [][CallTrimByFile]_vars

InitGather ==
    \E m \in MmoLists :
        InitCall("call_gather", [NoOpts EXCEPT !.mmo_given = TRUE, !.mmo = m])

\* bond_dic, angle_dic = gather_values(mmos)
CallGatherValues ==
    /\ pc = "call_gather"
    /\ bond_dic' = gather_values(opts.mmo).bond_dic
    /\ angle_dic' = gather_values(opts.mmo).angle_dic
    /\ pc' = "returned"
    /\ UNCHANGED <<opts, records, ff_params, params, chosen_params,
                   stdout, exported>>

SpecGather == InitGather /\ [][CallGatherValues]_vars

(***************************************************************************)
(* Properties.                                                              *)
(***************************************************************************)
Count(s, x) == Cardinality({k \in DOMAIN s : s[k] = x})

\* The columns of a line: its text before any '#', split at whitespace.
Cols(line) == Split(PartitionHead(line))

\* C1: trim_params_by_type returns exactly the records whose ptype is in the
\* requested list, each once and in the order of the input list, for every
\* input, the empty list of ptypes and unknown ptypes included; it always
\* returns, with the empty list when nothing matches.
C1_ByTypeSelectsExactlyInOrder ==
    /\ pc \in {"call_type", "returned"}
    /\ pc = "returned" =>
        /\ \A i \in DOMAIN records :
               Count(chosen_params, i) =
                   IF \E t \in DOMAIN opts.ptypes : opts.ptypes[t] = records[i].ptype
                   THEN 1 ELSE 0
        /\ \A k \in DOMAIN chosen_params : chosen_params[k] \in DOMAIN records
        /\ \A k, l \in DOMAIN chosen_params :
               k < l => chosen_params[k] < chosen_params[l]

\* Two records chosen around one that is not, an unknown ptype requested.
C1_Witness ==
    /\ pc = "returned"
    /\ opts.ptypes = <<"zz", "be">>
    /\ Len(records) = 5
    /\ chosen_params = <<1, 5>>

\* Nothing matches: the empty list is returned.
C1_WitnessEmpty ==
    /\ pc = "returned"
    /\ opts.ptypes = <<>>
    /\ Len(records) = 5
    /\ chosen_params = <<>>

\* The lines of a file that hold a directive for the address (row, col).
LinesFor(file, row, col) ==
    {k \in DOMAIN file :
        /\ Cols(file[k]) # <<>>
        /\ ParseInt(Cols(file[k])[1]) = row
        /\ ParseInt(Cols(file[k])[2]) = col}

\* C2: the list trim_params_by_file returns holds each record as many times
\* as the file has directives with the record's row and column: k times for
\* k directives, not at all for none.
C2_ByFileOncePerDirective ==
    pc = "returned" =>
        /\ \A i \in DOMAIN records :
               Count(chosen_params, i) =
                   Cardinality(LinesFor(opts.pfile, records[i].mm3_row,
                                        records[i].mm3_col))
        /\ \A k \in DOMAIN chosen_params : chosen_params[k] \in DOMAIN records

\* A record chosen twice, beside one chosen once and one not chosen.
C2_Witness ==
    /\ pc = "returned"
    /\ \E i, j, l \in DOMAIN records :
           /\ Count(chosen_params, i) = 2
           /\ Count(chosen_params, j) = 1
           /\ Count(chosen_params, l) = 0

\* The observations of one kind in traversal order: file, structure,
\* observation.
RECURSIVE FlatStructures(_, _)
FlatStructures(structures, kind) ==
    IF structures = <<>> THEN <<>>
    ELSE (IF kind = "bonds" THEN Head(structures).bonds
          ELSE Head(structures).angles)
         \o FlatStructures(Tail(structures), kind)

RECURSIVE FlatMmos(_, _)
FlatMmos(mmos, kind) ==
    IF mmos = <<>> THEN <<>>
    ELSE FlatStructures(Head(mmos), kind) \o FlatMmos(Tail(mmos), kind)

RECURSIVE ValuesOfRow(_, _)
ValuesOfRow(obs, row) ==
    IF obs = <<>> THEN <<>>
    ELSE (IF Head(obs).ff_row = row THEN <<Head(obs).value>> ELSE <<>>)
         \o ValuesOfRow(Tail(obs), row)

TableIsExactly(dic, obs) ==
    /\ DOMAIN dic = {obs[k].ff_row : k \in DOMAIN obs}
    /\ \A row \in DOMAIN dic : dic[row] = ValuesOfRow(obs, row)

\* C9: gather_values returns, for each row, the values of the bond
\* observations with that row in traversal order, duplicates kept, in the
\* bond table, and likewise the angle observations in the angle table; a row
\* is a key of a table exactly when an observation of that kind carries it.
C9_GatherKeepsEveryObservationInOrder ==
    pc = "returned" =>
        /\ TableIsExactly(bond_dic, FlatMmos(opts.mmo, "bonds"))
        /\ TableIsExactly(angle_dic, FlatMmos(opts.mmo, "angles"))

\* Three files: a row with values from two files and a repeated value, rows
\* of one kind only.
C9_Witness ==
    /\ pc = "returned"
    /\ Len(opts.mmo) = 3
    /\ 1858 \in DOMAIN bond_dic /\ 1858 \in DOMAIN angle_dic
    /\ bond_dic[1858] = <<1360, 1354, 1360, 1354>>
    /\ angle_dic[1858] = <<1200>>
    /\ 200 \in DOMAIN bond_dic
    /\ 300 \notin DOMAIN bond_dic

\* The negative-flag of a line that holds a directive: True exactly when a
\* column after the first two contains 'neg'.
LineFlag(line) ==
    IF \E t \in 3..Len(Cols(line)) : ContainsNeg(Cols(line)[t])
    THEN "True" ELSE "None"

Max(S) == CHOOSE m \in S : \A x \in S : x <= m

ScenarioFile == <<Line_100_1, Line_100_2_neg, Line_200_1_comment>>

ScenarioRecords == Pick(BaseFF, {1, 2, 3, 4}, 1)

\* The scenario of C3: the file 100 1 / 100 2 neg / 200 1 # comment against
\* the records (100,1), (100,2), (200,1), (300,1).
ScenarioHolds ==
    (pc = "returned" /\ opts.pfile = ScenarioFile /\ opts.ffpath = ScenarioRecords)
        => /\ chosen_params = <<1, 2, 3>>
           /\ records[1].allow_negative = "None"
           /\ records[2].allow_negative = "True"
           /\ records[3].allow_negative = "None"
           /\ records[4] = opts.ffpath[4]

\* C3 as stated: after trim_params_by_file every record has the
\* negative-flag of every directive with its row and column; the flag is True
\* exactly when a column after the first two, before any '#', contains
\* 'neg'; the scenario holds.
C3_FlagOfEveryMatchingDirective ==
    /\ pc = "returned" =>
           \A i \in DOMAIN records :
               \A k \in LinesFor(opts.pfile, records[i].mm3_row, records[i].mm3_col) :
                   records[i].allow_negative = LineFlag(opts.pfile[k])
    /\ ScenarioHolds

\* C3, amended: after trim_params_by_file every record matched by a directive
\* has the negative-flag of the last directive in the file with its row and
\* column, the flag being True exactly when a column after the first two,
\* before any '#', contains 'neg'; a record no directive matches is left as
\* it was; the scenario holds.
C3_FlagOfLastMatchingDirective ==
    /\ pc = "returned" =>
           \A i \in DOMAIN records :
               LET at == LinesFor(opts.pfile, records[i].mm3_row, records[i].mm3_col)
               IN  IF at = {} THEN records[i] = opts.ffpath[i]
                   ELSE /\ records[i].allow_negative = LineFlag(opts.pfile[Max(at)])
                        /\ [records[i] EXCEPT !.allow_negative = "None"]
                             = [opts.ffpath[i] EXCEPT !.allow_negative = "None"]
    /\ ScenarioHolds

\* The scenario, after the call.
C3_Witness ==
    /\ pc = "returned"
    /\ opts.pfile = ScenarioFile
    /\ opts.ffpath = ScenarioRecords
    /\ chosen_params = <<1, 2, 3>>
    /\ records[2].allow_negative = "True"

\* A 'neg' in the fourth column sets the flag, a 'neg' in a comment does not.
C3_WitnessFlags ==
    /\ pc = "returned"
    /\ opts.pfile = <<Line_200_1_a_xneg, Line_100_2_hash_neg>>
    /\ opts.ffpath = ScenarioRecords
    /\ records[3].allow_negative = "True"
    /\ records[2].allow_negative = "None"

\* The directives of a file that parses, in file order.
Directives(file) == ReadLines(file, <<>>).temp_params

MatchesOf(file, rec) ==
    {j \in DOMAIN Directives(file) :
        /\ Directives(file)[j][1] = rec.mm3_row
        /\ Directives(file)[j][2] = rec.mm3_col}

\* C10: a record matched by several directives of one file ends with the
\* flag of the last matching directive in file order: a later directive
\* without 'neg' unsets what an earlier 'neg' directive or an earlier call
\* had set, and every entry of the record in the returned list shows that
\* final flag.
C10_LastMatchingDirectiveWins ==
    pc = "returned" =>
        \A i \in DOMAIN records :
            LET M == MatchesOf(opts.pfile, records[i]) IN
            M # {} =>
               /\ records[i].allow_negative = Directives(opts.pfile)[Max(M)][3]
               /\ \A k \in DOMAIN chosen_params :
                      chosen_params[k] = i =>
                          records[chosen_params[k]].allow_negative
                              = Directives(opts.pfile)[Max(M)][3]

\* A record set by an earlier call, matched by a 'neg' directive and then by
\* one without: chosen twice and unset.
C10_Witness ==
    /\ pc = "returned"
    /\ \E i \in DOMAIN records :
           LET M == MatchesOf(opts.pfile, records[i]) IN
           /\ opts.ffpath[i].allow_negative = "True"
           /\ Cardinality(M) = 2
           /\ \E j1, j2 \in M :
                  /\ j1 < j2
                  /\ Directives(opts.pfile)[j1][3] = "True"
                  /\ Directives(opts.pfile)[j2][3] = "None"
           /\ Count(chosen_params, i) = 2
           /\ records[i].allow_negative = "None"

\* v is the arithmetic mean of values: v = (v1 + ... + vn) / n.
IsMeanOf(v, values) ==
    /\ values # <<>>
    /\ v[2] > 0
    /\ v[1] * Len(values) = Sum(values) * v[2]

AfterAveraging == opts.average /\ pc \in {"print", "return", "done"}

\* C4: after the averaging step of main, a chosen record of ptype 'be' or
\* 'ae' whose row is a key of exactly one of the two tables has the mean of
\* that row's values in that table, whichever table it is; a chosen record
\* of another ptype, or whose row is a key of neither table, has its value
\* unchanged.  With the bond table {1858: [1.360, 1.354]} and no angles the
\* record (1858, 1, 'be', 1.300) ends with 1.357.
C4_AverageIsMeanOfTheOneTable ==
    AfterAveraging =>
        \A k \in DOMAIN params :
            LET r == records[params[k]]
                original == opts.ffpath[params[k]]
                in_bonds == r.mm3_row \in DOMAIN bond_dic
                in_angles == r.mm3_row \in DOMAIN angle_dic
            IN  /\ (r.ptype \in {"be", "ae"} /\ in_bonds /\ ~in_angles)
                       => IsMeanOf(r.value, bond_dic[r.mm3_row])
                /\ (r.ptype \in {"be", "ae"} /\ in_angles /\ ~in_bonds)
                       => IsMeanOf(r.value, angle_dic[r.mm3_row])
                /\ (r.ptype \notin {"be", "ae"} \/ (~in_bonds /\ ~in_angles))
                       => r.value = original.value
                /\ ( /\ DOMAIN bond_dic = {1858}
                     /\ DOMAIN angle_dic = {}
                     /\ in_bonds
                     /\ bond_dic[1858] = <<1360, 1354>>
                     /\ r.mm3_row = 1858 /\ r.mm3_col = 1 /\ r.ptype = "be"
                     /\ original.value = <<1300, 1>> )
                       => r.value = <<1357, 1>>

\* The scenario, beside a record of another ptype left alone.
C4_Witness ==
    /\ AfterAveraging
    /\ DOMAIN bond_dic = {1858} /\ DOMAIN angle_dic = {}
    /\ \E k, l \in DOMAIN params :
           /\ records[params[k]].mm3_row = 1858
           /\ records[params[k]].value = <<1357, 1>>
           /\ opts.ffpath[params[k]].value = <<1300, 1>>
           /\ records[params[l]].ptype = "ae"
           /\ records[params[l]].value = opts.ffpath[params[l]].value

\* A bond length that takes a mean of the angle table and an angle that
\* takes a mean of the bond table, a bond force constant left alone.
C4_WitnessEitherTable ==
    /\ AfterAveraging
    /\ \E k, l, m \in DOMAIN params :
           /\ records[params[k]].ptype = "be"
           /\ records[params[k]].mm3_row \in DOMAIN angle_dic \ DOMAIN bond_dic
           /\ records[params[k]].value # opts.ffpath[params[k]].value
           /\ records[params[l]].ptype = "ae"
           /\ records[params[l]].mm3_row \in DOMAIN bond_dic \ DOMAIN angle_dic
           /\ records[params[l]].value # opts.ffpath[params[l]].value
           /\ records[params[m]].ptype = "bf"
           /\ records[params[m]].mm3_row \in DOMAIN bond_dic

\* C5: a chosen record of ptype 'be' or 'ae' whose row is a key of both
\* tables has, after the averaging step, the mean of the angle table for
\* that row, also when the record is in the chosen list more than once.
C5_AngleMeanWinsInBothTables ==
    AfterAveraging =>
        \A k \in DOMAIN params :
            LET r == records[params[k]] IN
            ( /\ r.ptype \in {"be", "ae"}
              /\ r.mm3_row \in DOMAIN bond_dic
              /\ r.mm3_row \in DOMAIN angle_dic )
                => IsMeanOf(r.value, angle_dic[r.mm3_row])

\* A record chosen twice whose row has different means in the two tables.
C5_Witness ==
    /\ AfterAveraging
    /\ \E k, l \in DOMAIN params :
           LET r == records[params[k]] IN
           /\ k < l /\ params[k] = params[l]
           /\ r.ptype \in {"be", "ae"}
           /\ r.mm3_row \in DOMAIN bond_dic
           /\ r.mm3_row \in DOMAIN angle_dic
           /\ ~IsMeanOf(Mean(angle_dic[r.mm3_row]), bond_dic[r.mm3_row])
           /\ IsMeanOf(r.value, angle_dic[r.mm3_row])

\* C6: with --check, main prints a notice for a chosen record exactly when
\* its row is a key of neither table, once for each time the record is in
\* the chosen list, whatever its column and ptype; it prints none without
\* --check.
C6_NoticeIffRowInNeitherTable ==
    pc = "average" =>
        IF opts.check
        THEN /\ \A i \in DOMAIN records :
                    Count(stdout, <<"not in use", i>>) =
                        IF \/ records[i].mm3_row \in DOMAIN bond_dic
                           \/ records[i].mm3_row \in DOMAIN angle_dic
                        THEN 0 ELSE Count(params, i)
             /\ \A k \in DOMAIN stdout :
                    \E i \in DOMAIN records : stdout[k] = <<"not in use", i>>
        ELSE stdout = <<>>

\* A record flagged twice, being chosen twice; a record of column 2 not
\* flagged for a row that only bonds carry, and one not flagged for a row
\* that only angles carry.
C6_Witness ==
    /\ pc = "average"
    /\ opts.check
    /\ \E i, j, l \in DOMAIN records :
           /\ Count(params, i) = 2
           /\ Count(stdout, <<"not in use", i>>) = 2
           /\ Count(params, j) > 0
           /\ records[j].mm3_col = 2
           /\ records[j].mm3_row \in DOMAIN bond_dic \ DOMAIN angle_dic
           /\ Count(stdout, <<"not in use", j>>) = 0
           /\ Count(params, l) > 0
           /\ records[l].mm3_row \in DOMAIN angle_dic \ DOMAIN bond_dic
           /\ Count(stdout, <<"not in use", l>>) = 0

\* C7: when averaging or usage-checking is requested and no .mmo files are
\* given, main fails before the force field is imported, before any
\* selection, before any structure file is read and before anything is
\* printed or exported: no record exists or is changed on that path.
C7_MissingInputFailsFirst ==
    ((opts.average \/ opts.check) /\ ~opts.mmo_given) =>
        /\ pc \in {"start", "AssertionError"}
        /\ records = <<>>
        /\ ff_params = <<>>
        /\ params = <<>>
        /\ chosen_params = <<>>
        /\ DOMAIN bond_dic = {} /\ DOMAIN angle_dic = {}
        /\ stdout = <<>>
        /\ exported = <<>>

\* The failure, usage-checking alone requested, with ptypes and a selection
\* file given.
C7_Witness ==
    /\ pc = "AssertionError"
    /\ opts.check /\ ~opts.average /\ ~opts.mmo_given
    /\ opts.ptypes # <<>> /\ opts.pfile_given /\ opts.printparams

\* A line with columns whose first two are not both integers.
IsBadLine(line) ==
    /\ Cols(line) # <<>>
    /\ \/ Len(Cols(line)) < 2
       \/ ~IsInt(Cols(line)[1])
       \/ ~IsInt(Cols(line)[2])

HasBadLine(file) == \E k \in DOMAIN file : IsBadLine(file[k])

\* C8: if a line of the selection file has columns and its first two are
\* not both integers, trim_params_by_file fails and applies no directive,
\* wherever the line is: no allow_negative is changed and no record is
\* chosen from the file, also for directives before the line; main prints
\* no address and exports nothing on that path.
C8_BadLineAppliesNothing ==
    (opts.pfile_given /\ HasBadLine(opts.pfile)) =>
        /\ pc \in {"start", "AssertionError", "import", "types", "by_type",
                   "by_file", "ValueError", "IndexError"}
        /\ stdout = <<>>
        /\ exported = <<>>
        /\ pc \in {"ValueError", "IndexError"} =>
               /\ records = opts.ffpath
               /\ \A i \in DOMAIN records :
                      Count(params, i) =
                          IF \E t \in DOMAIN opts.ptypes :
                                 opts.ptypes[t] = records[i].ptype
                          THEN 1 ELSE 0

\* The failure on a third line, after two directives that match records,
\* the second with 'neg'; parameters chosen by type, printing requested.
C8_Witness ==
    /\ pc = "IndexError"
    /\ opts.pfile = <<Line_100_1, Line_100_2_neg, Line_100>>
    /\ Len(records) = 5
    /\ params # <<>>
    /\ opts.printparams /\ opts.average

\* The failure on a line that is not an integer, between two directives.
C8_WitnessValueError ==
    /\ pc = "ValueError"
    /\ opts.pfile = <<Line_100_2_neg, Line_1x_1, Line_200_1_comment>>
    /\ Len(records) = 5

====
